---- MODULE Spec2Model ----
(***************************************************************************)
(* Model of src/Final.py: the per-frame loop of SelfDrivingCarSimulator,   *)
(* the two inference tasks it dispatches to a thread pool for every frame, *)
(* the nested pool of ImageSegmentation.process, the smoothing filter of   *)
(* _update_display, the frame-rate throttle and the quit-key poll.         *)
(*                                                                         *)
(* Units.  Angles are fixed-point numbers in 1/1000 degree.  In that unit  *)
(* the filter's step 0.2 * |e|^(2/3) is 2 * |e|^(2/3), which the model     *)
(* rounds down to the unit.  Clock readings are ticks of 1/90 second       *)
(* counted from start_time, so the default frame_interval 1/30 s is 3      *)
(* ticks.  An image is a record: the frame it was derived from, one        *)
(* representative pixel as a fraction num/den, and the marks drawn on it.  *)
(***************************************************************************)
EXTENDS Integers, Sequences, FiniteSets, TLC

\* ---------------------------------------------------------------- bounds
MaxFrames == 3
MaxMasks == 1
MaxElapsed == 4

\* Pixel values of the dataset's frames, predicted angles (1/1000 degree)
\* and key codes the display subsystem may deliver.
Pixels == {0, 255}
Angles == {0 - 1000, 0, 1}

\* ------------------------------------------------------ program constants
FrameInterval == 3
OrdQ == 113
ByteMask == 256
NoKey == -1
PixelMax == 255
ResizeShape == <<66, 200>>
KeyCodes == {OrdQ, 81}

VARIABLES
    dataset,          \* the frames on disk: dataset[k+1] is the pixel of "<k>.jpg"
    i,                \* start_simulation's frame index
    pc,               \* position of the simulator thread
    error,            \* the exception propagating in the simulator thread
    heap,             \* image buffers: full_image and process's overlay
    resized_image,    \* local of start_simulation
    degrees,          \* local of start_simulation
    segmented_image,  \* local of start_simulation
    steering,         \* future_steering: state and result
    segmentation,     \* future_segmentation: position inside process, result
    lane,             \* future_lane of process's own pool
    object,           \* future_object of process's own pool
    predictArg,       \* the array last handed to model.predict
    smoothed_angle,   \* self.smoothed_angle: [nan, v]
    printed,          \* console output
    dispatched,       \* frame indices whose two tasks were submitted
    displayed,        \* frame indices shown by imshow
    windows,          \* what the three windows show, and whether they exist
    destroyed,        \* cv2.destroyAllWindows was called
    lastSleep,        \* the last call of time.sleep in this iteration
    key,              \* the key code pending in the display subsystem
    polls             \* number of cv2.waitKey calls

vars == <<dataset, i, pc, error, heap, resized_image, degrees, segmented_image,
          steering, segmentation, lane, object, predictArg, smoothed_angle,
          printed, dispatched, displayed, windows, destroyed, lastSleep, key,
          polls>>

\* ------------------------------------------------------------ pure helpers
Abs(x) == IF x < 0 THEN 0 - x ELSE x

Sign(x) == IF x < 0 THEN 0 - 1 ELSE IF x > 0 THEN 1 ELSE 0

\* floor of the cube root of x, for 0 <= x <= hi^3
ICbrt(x, hi) == CHOOSE k \in 0..hi : k * k * k <= x /\ (k + 1) * (k + 1) * (k + 1) > x

NoImage == [frame |-> 0 - 1, num |-> 0, den |-> 1, lanes |-> 0, objs |-> 0]

NoArray == [frame |-> 0 - 1, num |-> 0, den |-> 1, shape |-> <<>>]

NoResult == [frame |-> 0 - 1, val |-> 0]

NoBlend == [overlay |-> NoImage, base |-> NoImage]

\* cv2.imread: the frame as stored, or None (present = FALSE)
Imread(k) ==
    IF k < Len(dataset)
    THEN [present |-> TRUE,
          img |-> [frame |-> k, num |-> dataset[k + 1], den |-> 1, lanes |-> 0, objs |-> 0]]
    ELSE [present |-> FALSE, img |-> NoImage]

\* cv2.resize(a, (200, 66)): a new array of 66 rows and 200 columns
Resize(a) == [a EXCEPT !.shape = ResizeShape]

\* a / 255.0
Normalize(a) == [a EXCEPT !.den = a.den * PixelMax]

\* line 112: cv2.resize(full_image[-150:], (200, 66)) / 255.0
CropResizeNormalize(img) ==
    Normalize(Resize([frame |-> img.frame, num |-> img.num, den |-> img.den,
                      shape |-> <<150>>]))

\* SteeringAnglePredictor.preprocess_image
preprocess_image(image) ==
    LET r == Normalize(Resize(image))
    IN  [r EXCEPT !.shape = <<1>> \o r.shape]

\* faulty variant: the operands of the sign term exchanged
SmoothStepReversed(e) == (0 - Sign(e)) * ICbrt(8 * e * e, 2 * Abs(e))

\* the smoothing increment of line 130 for e = degrees - smoothed_angle, e # 0:
\* 0.2 * pow(abs(e), 2/3) * e / abs(e)
SmoothStep(e) == Sign(e) * ICbrt(8 * e * e, 2 * Abs(e))

\* line 130 with degrees = d: the divisor abs(d - smoothed_angle) is zero
ZeroDivisor(s, d) == ~s.nan /\ d = s.v

\* self.smoothed_angle after line 130 when it does not raise: nan once the
\* division was 0/0 (numpy scalars), and nan propagates
SmoothedNext(s, d) ==
    IF s.nan \/ d = s.v
    THEN [nan |-> TRUE, v |-> 0]
    ELSE [nan |-> FALSE, v |-> s.v + SmoothStep(d - s.v)]

\* faulty variant: the index advanced twice
NextIndexSkip(k) == k + 2

\* line 120: i += 1
NextIndex(k) == k + 1

\* faulty variant: any key ends the loop
IsQuitAnyKey(code) == code # NoKey

\* (code & 0xFF) == ord('q')
IsQuit(code) == (code % ByteMask) = OrdQ

\* faulty variant: overlay = img, no copy
OverlayAlias == "full_image"

\* img.copy(): the buffer the drawing operations of process write to
OverlayRef == "overlay"

\* future.result() of line 116 returns or raises once the task has finished
SteeringFinished == steering.state \in {"done", "failed"}

\* faulty variant: the segmentation result is used without waiting for it
SegmentationNotAwaited == TRUE

\* future.result() of line 117
SegmentationFinished == segmentation.state \in {"done", "failed"}

\* faulty variant: shutdown(wait=False)
PoolNoWait == TRUE

\* ThreadPoolExecutor.__exit__ of line 113: shutdown(wait=True)
PoolQuiescent == SteeringFinished /\ SegmentationFinished

\* ThreadPoolExecutor.__exit__ of line 58
InnerPoolQuiescent == lane.state \in {"done", "failed"} /\ object.state \in {"done", "failed"}

NoTask == [state |-> "none", arg |-> NoArray, result |-> NoResult]

NoSegTask == [state |-> "none", result |-> NoBlend]

NoInner == [state |-> "none", masks |-> 0]

NoSleep == [called |-> FALSE, dur |-> 0]

NoWindows == [open |-> FALSE, original |-> NoImage, segmented |-> NoBlend,
              wheel |-> [nan |-> FALSE, v |-> 0], degreesFrame |-> 0 - 1]

\* the datasets the model runs on: n frames, each of the same pixel value
Datasets == {[k \in 1..n |-> p] : n \in 0..MaxFrames, p \in Pixels}

\* ------------------------------------------------------------------ Init
\* SelfDrivingCarSimulator.__init__ and the entry of start_simulation
Init ==
    /\ dataset \in Datasets
    /\ i = 0
    /\ pc = "read"
    /\ error = "none"
    /\ heap = [full_image |-> NoImage, overlay |-> NoImage]
    /\ resized_image = NoArray
    /\ degrees = NoResult
    /\ segmented_image = NoBlend
    /\ steering = NoTask
    /\ segmentation = NoSegTask
    /\ lane = NoInner
    /\ object = NoInner
    /\ predictArg = NoArray
    /\ smoothed_angle = [nan |-> FALSE, v |-> 0]
    /\ printed = <<>>
    /\ dispatched = <<>>
    /\ displayed = <<>>
    /\ windows = NoWindows
    /\ destroyed = FALSE
    /\ lastSleep = NoSleep
    /\ key = NoKey
    /\ polls = 0

\* ------------------------------------------------- the simulator's thread
\* lines 106-112, and 109-110 with 126 when the frame is missing
ReadFrame ==
    /\ pc = "read"
    /\ LET r == Imread(i)
       IN  IF r.present
           THEN /\ heap' = [heap EXCEPT !.full_image = r.img]
                /\ resized_image' = CropResizeNormalize(r.img)
                /\ pc' = "submit_steering"
                /\ UNCHANGED <<printed, destroyed, windows>>
           ELSE /\ printed' = Append(printed, [kind |-> "ending", val |-> i])
                /\ pc' = "done"
                /\ destroyed' = TRUE
                /\ windows' = [windows EXCEPT !.open = FALSE]
                /\ UNCHANGED <<heap, resized_image>>
    /\ UNCHANGED <<dataset, i, error, degrees, segmented_image, steering,
                   segmentation, lane, object, predictArg, smoothed_angle,
                   dispatched, displayed, lastSleep, key, polls>>

\* line 114
SubmitSteering ==
    /\ pc = "submit_steering"
    /\ steering' = [state |-> "queued", arg |-> resized_image, result |-> NoResult]
    /\ pc' = "submit_segmentation"
    /\ UNCHANGED <<dataset, i, error, heap, resized_image, degrees,
                   segmented_image, segmentation, lane, object, predictArg,
                   smoothed_angle, printed, dispatched, displayed, windows,
                   destroyed, lastSleep, key, polls>>

\* line 115
SubmitSegmentation ==
    /\ pc = "submit_segmentation"
    /\ segmentation' = [state |-> "queued", result |-> NoBlend]
    /\ lane' = NoInner
    /\ object' = NoInner
    /\ dispatched' = Append(dispatched, i)
    /\ pc' = "join_steering"
    /\ UNCHANGED <<dataset, i, error, heap, resized_image, degrees,
                   segmented_image, steering, predictArg, smoothed_angle,
                   printed, displayed, windows, destroyed, lastSleep, key, polls>>

\* line 116
JoinSteering ==
    /\ pc = "join_steering"
    /\ SteeringFinished
    /\ IF steering.state = "failed"
       THEN /\ error' = "steering"
            /\ pc' = "exit_pool"
            /\ UNCHANGED degrees
       ELSE /\ degrees' = steering.result
            /\ pc' = "join_segmentation"
            /\ UNCHANGED error
    /\ UNCHANGED <<dataset, i, heap, resized_image, segmented_image, steering,
                   segmentation, lane, object, predictArg, smoothed_angle,
                   printed, dispatched, displayed, windows, destroyed,
                   lastSleep, key, polls>>

\* line 117
JoinSegmentation ==
    /\ pc = "join_segmentation"
    /\ SegmentationFinished
    /\ IF segmentation.state = "failed"
       THEN /\ error' = "segmentation"
            /\ UNCHANGED segmented_image
       ELSE /\ segmented_image' = segmentation.result
            /\ UNCHANGED error
    /\ pc' = "exit_pool"
    /\ UNCHANGED <<dataset, i, heap, resized_image, degrees, steering,
                   segmentation, lane, object, predictArg, smoothed_angle,
                   printed, dispatched, displayed, windows, destroyed,
                   lastSleep, key, polls>>

\* the end of the with block of line 113: wait for the workers, then go on
\* or let the exception of a join leave start_simulation
ExitPool ==
    /\ pc = "exit_pool"
    /\ PoolQuiescent
    /\ pc' = IF error = "none" THEN "update_display" ELSE "crashed"
    /\ UNCHANGED <<dataset, i, error, heap, resized_image, degrees,
                   segmented_image, steering, segmentation, lane, object,
                   predictArg, smoothed_angle, printed, dispatched, displayed,
                   windows, destroyed, lastSleep, key, polls>>

\* line 119 and _update_display, lines 128-136.  With degrees equal to
\* smoothed_angle line 130 divides zero by zero: a Python float raises
\* ZeroDivisionError, a numpy scalar yields nan (and nan stays nan).
UpdateDisplay ==
    /\ pc = "update_display"
    /\ printed' = Append(printed, [kind |-> "angle", val |-> degrees.val])
    /\ \E raises \in BOOLEAN :
         LET zero == ZeroDivisor(smoothed_angle, degrees.val)
             next == SmoothedNext(smoothed_angle, degrees.val)
         IN  IF zero /\ raises
             THEN /\ error' = "ZeroDivisionError"
                  /\ pc' = "crashed"
                  /\ UNCHANGED <<smoothed_angle, windows, displayed>>
             ELSE /\ ~raises
                  /\ smoothed_angle' = next
                  /\ windows' = [open |-> TRUE, original |-> heap.full_image,
                                 segmented |-> segmented_image, wheel |-> next,
                                 degreesFrame |-> degrees.frame]
                  /\ displayed' = Append(displayed, heap.full_image.frame)
                  /\ pc' = "throttle"
                  /\ UNCHANGED error
    /\ UNCHANGED <<dataset, i, heap, resized_image, degrees, segmented_image,
                   steering, segmentation, lane, object, predictArg, dispatched,
                   destroyed, lastSleep, key, polls>>

\* lines 120-122: t1 and t2 are the two readings of time.time() - start_time
Throttle ==
    /\ pc = "throttle"
    /\ i' = NextIndex(i)
    /\ \E t1 \in 0..MaxElapsed :
         IF t1 < FrameInterval
         THEN \E t2 \in t1..MaxElapsed :
                /\ lastSleep' = [called |-> TRUE, dur |-> FrameInterval - t2]
                /\ IF FrameInterval - t2 < 0
                   THEN error' = "ValueError" /\ pc' = "crashed"
                   ELSE pc' = "poll" /\ UNCHANGED error
         ELSE /\ lastSleep' = NoSleep
              /\ pc' = "poll"
              /\ UNCHANGED error
    /\ UNCHANGED <<dataset, heap, resized_image, degrees, segmented_image,
                   steering, segmentation, lane, object, predictArg,
                   smoothed_angle, printed, dispatched, displayed, windows,
                   destroyed, key, polls>>

\* lines 124-126
PollKey ==
    /\ pc = "poll"
    /\ polls' = polls + 1
    /\ key' = NoKey
    /\ lastSleep' = NoSleep
    /\ IF IsQuit(key)
       THEN /\ pc' = "done"
            /\ destroyed' = TRUE
            /\ windows' = [windows EXCEPT !.open = FALSE]
       ELSE /\ pc' = "read"
            /\ UNCHANGED <<destroyed, windows>>
    /\ UNCHANGED <<dataset, i, error, heap, resized_image, degrees,
                   segmented_image, steering, segmentation, lane, object,
                   predictArg, smoothed_angle, printed, dispatched, displayed>>

\* the user presses a key while the loop runs
KeyPress ==
    /\ pc \notin {"done", "crashed"}
    /\ \E k \in KeyCodes : k # key /\ key' = k
    /\ UNCHANGED <<dataset, i, pc, error, heap, resized_image, degrees,
                   segmented_image, steering, segmentation, lane, object,
                   predictArg, smoothed_angle, printed, dispatched, displayed,
                   windows, destroyed, lastSleep, polls>>

\* ------------------------------------------------------ the worker threads
\* SteeringAnglePredictor.predict_angle, lines 32-36: the model's answer,
\* converted to degrees, is any of Angles, or the call fails
RunSteering ==
    /\ steering.state = "queued"
    /\ predictArg' = preprocess_image(steering.arg)
    /\ \/ \E d \in Angles :
            steering' = [steering EXCEPT !.state = "done",
                           !.result = [frame |-> steering.arg.frame, val |-> d]]
       \/ steering' = [steering EXCEPT !.state = "failed"]
    /\ UNCHANGED <<dataset, i, pc, error, heap, resized_image, degrees,
                   segmented_image, segmentation, lane, object, smoothed_angle,
                   printed, dispatched, displayed, windows, destroyed,
                   lastSleep, key, polls>>

\* ImageSegmentation.process, lines 57-60
StartProcess ==
    /\ segmentation.state = "queued"
    /\ heap' = [heap EXCEPT ![OverlayRef] = heap.full_image]
    /\ lane' = [state |-> "queued", masks |-> 0]
    /\ object' = [state |-> "queued", masks |-> 0]
    /\ segmentation' = [segmentation EXCEPT !.state = "inner"]
    /\ UNCHANGED <<dataset, i, pc, error, resized_image, degrees,
                   segmented_image, steering, predictArg, smoothed_angle,
                   printed, dispatched, displayed, windows, destroyed,
                   lastSleep, key, polls>>

\* self.lane_model.predict(img, conf=0.5)
LanePredict ==
    /\ lane.state = "queued"
    /\ \/ \E n \in 0..MaxMasks : lane' = [state |-> "done", masks |-> n]
       \/ lane' = [state |-> "failed", masks |-> 0]
    /\ UNCHANGED <<dataset, i, pc, error, heap, resized_image, degrees,
                   segmented_image, steering, segmentation, object, predictArg,
                   smoothed_angle, printed, dispatched, displayed, windows,
                   destroyed, lastSleep, key, polls>>

\* self.object_model.predict(img, conf=0.5)
ObjectPredict ==
    /\ object.state = "queued"
    /\ \/ \E n \in 0..MaxMasks : object' = [state |-> "done", masks |-> n]
       \/ object' = [state |-> "failed", masks |-> 0]
    /\ UNCHANGED <<dataset, i, pc, error, heap, resized_image, degrees,
                   segmented_image, steering, segmentation, lane, predictArg,
                   smoothed_angle, printed, dispatched, displayed, windows,
                   destroyed, lastSleep, key, polls>>

\* lines 61-62 and the end of the with block of line 58
JoinProcess ==
    /\ segmentation.state = "inner"
    /\ InnerPoolQuiescent
    /\ segmentation' = [segmentation EXCEPT !.state =
                          IF lane.state = "done" /\ object.state = "done"
                          THEN "draw_lane" ELSE "failed"]
    /\ UNCHANGED <<dataset, i, pc, error, heap, resized_image, degrees,
                   segmented_image, steering, lane, object, predictArg,
                   smoothed_angle, printed, dispatched, displayed, windows,
                   destroyed, lastSleep, key, polls>>

\* line 64, _draw_lane_overlay: one fillPoly per lane mask
DrawLaneOverlay ==
    /\ segmentation.state = "draw_lane"
    /\ heap' = [heap EXCEPT ![OverlayRef].lanes = @ + lane.masks]
    /\ segmentation' = [segmentation EXCEPT !.state = "draw_object"]
    /\ UNCHANGED <<dataset, i, pc, error, resized_image, degrees,
                   segmented_image, steering, lane, object, predictArg,
                   smoothed_angle, printed, dispatched, displayed, windows,
                   destroyed, lastSleep, key, polls>>

\* line 65, _draw_object_overlay: polygon, box and label per object
DrawObjectOverlay ==
    /\ segmentation.state = "draw_object"
    /\ heap' = [heap EXCEPT ![OverlayRef].objs = @ + object.masks]
    /\ segmentation' = [segmentation EXCEPT !.state = "blend"]
    /\ UNCHANGED <<dataset, i, pc, error, resized_image, degrees,
                   segmented_image, steering, lane, object, predictArg,
                   smoothed_angle, printed, dispatched, displayed, windows,
                   destroyed, lastSleep, key, polls>>

\* line 66: cv2.addWeighted(overlay, alpha, img, 1 - alpha, 0)
Blend ==
    /\ segmentation.state = "blend"
    /\ segmentation' = [state |-> "done",
                        result |-> [overlay |-> heap[OverlayRef],
                                    base |-> heap.full_image]]
    /\ UNCHANGED <<dataset, i, pc, error, heap, resized_image, degrees,
                   segmented_image, steering, lane, object, predictArg,
                   smoothed_angle, printed, dispatched, displayed, windows,
                   destroyed, lastSleep, key, polls>>

Next ==
    \/ ReadFrame
    \/ SubmitSteering
    \/ SubmitSegmentation
    \/ JoinSteering
    \/ JoinSegmentation
    \/ ExitPool
    \/ UpdateDisplay
    \/ Throttle
    \/ PollKey
    \/ KeyPress
    \/ RunSteering
    \/ StartProcess
    \/ LanePredict
    \/ ObjectPredict
    \/ JoinProcess
    \/ DrawLaneOverlay
    \/ DrawObjectOverlay
    \/ Blend

Spec == Init /\ [][Next]_vars

\* -------------------------------------------- the smoothing filter alone
\* Runs of _update_display on a constant prediction D: the state after the
\* join of frame 0 with degrees = D, then one update per frame.
MaxSmoothSteps == 14

SmoothAngles == {0 - 10000, 0 - 1000, 0 - 27, 0 - 10, 0 - 2, 0 - 1,
                 1, 2, 3, 8, 10, 27, 64, 1000, 10000}

SmoothInit ==
    /\ dataset = [k \in 1..MaxSmoothSteps |-> PixelMax]
    /\ i = 0
    /\ pc = "update_display"
    /\ error = "none"
    /\ heap = [full_image |-> Imread(0).img, overlay |-> Imread(0).img]
    /\ resized_image = CropResizeNormalize(Imread(0).img)
    /\ \E d \in SmoothAngles : degrees = [frame |-> 0, val |-> d]
    /\ segmented_image = [overlay |-> Imread(0).img, base |-> Imread(0).img]
    /\ steering = [state |-> "done", arg |-> resized_image, result |-> degrees]
    /\ segmentation = [state |-> "done", result |-> segmented_image]
    /\ lane = [state |-> "done", masks |-> 0]
    /\ object = [state |-> "done", masks |-> 0]
    /\ predictArg = preprocess_image(resized_image)
    /\ smoothed_angle = [nan |-> FALSE, v |-> 0]
    /\ printed = <<>>
    /\ dispatched = <<0>>
    /\ displayed = <<>>
    /\ windows = NoWindows
    /\ destroyed = FALSE
    /\ lastSleep = NoSleep
    /\ key = NoKey
    /\ polls = 0

\* the next frame, on which the model predicts the same angle again
SamePrediction ==
    /\ pc = "throttle"
    /\ Len(printed) < MaxSmoothSteps
    /\ pc' = "update_display"
    /\ UNCHANGED <<dataset, i, error, heap, resized_image, degrees,
                   segmented_image, steering, segmentation, lane, object,
                   predictArg, smoothed_angle, printed, dispatched, displayed,
                   windows, destroyed, lastSleep, key, polls>>

SmoothNext ==
    \/ UpdateDisplay
    \/ SamePrediction

SpecSmooth == SmoothInit /\ [][SmoothNext]_vars

\* ------------------------------------------------------------- properties
\* the loop ended because frame i was missing (line 109)
Exhausted ==
    /\ pc = "done"
    /\ printed # <<>>
    /\ printed[Len(printed)].kind = "ending"

\* the loop ended on a polled 'q' (line 124)
QuitByKey == pc = "done" /\ ~Exhausted

Upto(n) == [k \in 1..n |-> k - 1]

AngleLines == SelectSeq(printed, LAMBDA l : l.kind = "angle")

\* C1: the frames whose tasks were dispatched and the frames displayed are
\* always 0, 1, 2, ... in order, none skipped or repeated and none at or
\* beyond the first missing index; at the top of iteration i exactly the
\* frames 0..i-1 were processed; the loop ends on the missing-frame message
\* only at the first missing index, having processed every frame before it.
C1_FramesInOrder ==
    /\ dispatched = Upto(Len(dispatched))
    /\ displayed = Upto(Len(displayed))
    /\ Len(displayed) <= Len(dispatched)
    /\ Len(dispatched) <= Len(dataset)
    /\ i <= Len(dataset)
    /\ pc = "read" => Len(dispatched) = i /\ Len(displayed) = i
    /\ Exhausted => /\ i = Len(dataset)
                    /\ dispatched = Upto(Len(dataset))
                    /\ displayed = Upto(Len(dataset))

C1_Witness == Exhausted /\ Len(dataset) >= 2 /\ displayed = Upto(Len(dataset))

\* C2: the display update of frame i starts only when both tasks dispatched
\* for frame i have completed, and the degrees value, the segmented image
\* and the raw image it uses all come from frame i; what the windows show
\* comes from the one frame displayed last.
C2_DisplayAfterJoin ==
    /\ pc = "update_display" =>
          /\ steering.state = "done"
          /\ segmentation.state = "done"
          /\ degrees.frame = i
          /\ degrees = steering.result
          /\ segmented_image = segmentation.result
          /\ segmented_image.overlay.frame = i
          /\ segmented_image.base.frame = i
          /\ heap.full_image.frame = i
    /\ windows.open =>
          /\ displayed # <<>>
          /\ windows.degreesFrame = displayed[Len(displayed)]
          /\ windows.original.frame = displayed[Len(displayed)]
          /\ windows.segmented.overlay.frame = displayed[Len(displayed)]
          /\ windows.segmented.base.frame = displayed[Len(displayed)]

C2_Witness ==
    /\ pc = "update_display"
    /\ i >= 1
    /\ windows.open
    /\ windows.original.frame = i - 1

\* C3: the smoothing update is never evaluated with degrees equal to
\* smoothed_angle, so the divisor of line 130 is never zero.
C3_DivisorNeverZero ==
    pc = "update_display" => ~ZeroDivisor(smoothed_angle, degrees.val)

ConstantRunUpdate ==
    /\ pc = "update_display"
    /\ pc' = "throttle"
    /\ ~smoothed_angle.nan
    /\ degrees.val # 0
    /\ \A k \in 1..Len(printed') :
          printed'[k].kind = "angle" /\ printed'[k].val = degrees.val

\* C5 as stated: on a constant prediction D # 0 every update moves the
\* smoothed angle toward D without passing it: |D - smoothed| does not
\* grow and D - smoothed does not change sign.
C5_NeverOvershoots ==
    [][ConstantRunUpdate =>
          LET e1 == degrees.val - smoothed_angle.v
              e2 == degrees.val - smoothed_angle'.v
          IN  Abs(e2) <= Abs(e1) /\ e1 * e2 >= 0]_vars

\* C5 as amended: while the smoothed angle is at least 0.01 degree away from
\* D, an update moves it strictly closer to D and leaves it on the same
\* side of D.
C5_NoOvershootFarFromTarget ==
    [][(ConstantRunUpdate /\ Abs(degrees.val - smoothed_angle.v) >= 10) =>
          LET e1 == degrees.val - smoothed_angle.v
              e2 == degrees.val - smoothed_angle'.v
          IN  Abs(e2) < Abs(e1) /\ e1 * e2 > 0]_vars

C5_Witness ==
    /\ pc = "throttle"
    /\ Len(printed) = 3
    /\ degrees.val = 1000
    /\ ~smoothed_angle.nan
    /\ smoothed_angle.v = 518

\* C6: time.sleep is never called with a negative duration.
C6_SleepNeverNegative == lastSleep.called => lastSleep.dur >= 0

\* the number of polls against the number of displayed frames: a poll
\* follows the display of its frame, and a displayed frame is left unpolled
\* only between its display and its poll, or when the throttle raised
C7_PollInvariant ==
    /\ polls <= Len(displayed)
    /\ Len(displayed) <= polls + 1
    /\ Len(displayed) = polls + 1 =>
          \/ pc \in {"throttle", "poll"}
          \/ pc = "crashed" /\ error = "ValueError"
    /\ pc = "poll" => Len(displayed) = polls + 1
    /\ pc \in {"read", "submit_steering", "submit_segmentation", "join_steering",
               "join_segmentation", "exit_pool", "update_display"}
          => polls = i
    /\ QuitByKey => /\ polls = Len(displayed)
                    /\ polls = Len(dispatched)
                    /\ polls = i
                    /\ polls >= 1
                    /\ destroyed
                    /\ ~windows.open

\* C7: cv2.waitKey is called once per displayed frame and only after that
\* frame's display update; a key press changes nothing but the pending
\* key, so tasks in flight finish and their frame is displayed; a polled
\* 'q' ends the loop with the windows closed and no further frame read;
\* any other key, or none, leaves the loop running on the next frame.
C7_QuitPolledAfterDisplay ==
    /\ []C7_PollInvariant
    /\ [][(key' # key /\ polls' = polls) =>
             UNCHANGED <<pc, error, steering, segmentation, lane, object,
                         dispatched, displayed, windows, destroyed>>]_vars
    /\ [][polls' # polls =>
             /\ pc = "poll"
             /\ polls' = polls + 1
             /\ Len(displayed) = polls'
             /\ i' = i
             /\ IF key = OrdQ
                THEN pc' = "done" /\ destroyed' /\ ~windows'.open
                ELSE pc' = "read" /\ ~destroyed' /\ windows'.open]_vars

C7_Witness ==
    /\ QuitByKey
    /\ polls = 2
    /\ Len(dataset) > 2

\* C8: when an inference task of frame i fails the failure leaves
\* start_simulation only after both tasks have finished; frame i is neither
\* printed nor displayed, smoothed_angle keeps the value it had, no later
\* frame is dispatched and destroyAllWindows is not called; a frame with a
\* failed task is never displayed.
C8_FailurePropagates ==
    /\ (pc = "crashed" /\ error \in {"steering", "segmentation"}) =>
          /\ steering.state \in {"done", "failed"}
          /\ segmentation.state \in {"done", "failed"}
          /\ steering.state = "failed" \/ segmentation.state = "failed"
          /\ lane.state # "queued" /\ object.state # "queued"
          /\ Len(AngleLines) = i
          /\ Len(displayed) = i
          /\ Len(dispatched) = i + 1
          /\ smoothed_angle = windows.wheel
          /\ ~destroyed
          /\ windows.open = (i > 0)
    /\ pc \in {"update_display", "throttle", "poll"} =>
          steering.state = "done" /\ segmentation.state = "done"
    /\ (pc = "exit_pool" /\ error = "none") =>
          steering.state = "done" /\ segmentation.state = "done"

C8_Witness ==
    /\ pc = "crashed"
    /\ error = "steering"
    /\ segmentation.state = "done"
    /\ i >= 1

\* C9: process never writes to its input: from the load of frame i to its
\* display the buffer full_image holds the frame as loaded, whatever was
\* drawn on the overlay, and the window "Original Frame" shows the loaded
\* frame.
C9_InputFrameUnchanged ==
    /\ pc \in {"submit_steering", "submit_segmentation", "join_steering",
               "join_segmentation", "exit_pool", "update_display"}
          => heap.full_image = Imread(i).img
    /\ windows.open =>
          windows.original = Imread(displayed[Len(displayed)]).img

C9_Witness ==
    /\ windows.open
    /\ windows.segmented.overlay.lanes >= 1
    /\ windows.segmented.overlay.objs >= 1
    /\ windows.original.lanes = 0
    /\ windows.original.objs = 0

\* C10: the array handed to model.predict is the frame resized to 200x66
\* with a leading batch dimension and each pixel divided by 255 exactly
\* once, so a pixel p arrives as p / 255.
C10_NormalizedOnce ==
    predictArg.frame >= 0 =>
       /\ predictArg.shape = <<1, 66, 200>>
       /\ predictArg.num * PixelMax = dataset[predictArg.frame + 1] * predictArg.den

====
